---- MODULE Spec2Model ----
(***************************************************************************)
(* TorchTimer (src/src/lib.rs): a board of countdown timers.               *)
(*                                                                         *)
(* Time is counted in whole seconds.  An Instant is an integer number of   *)
(* seconds on the monotonic clock (it may lie before the clock's origin,   *)
(* as a unix timespec may), a Duration a natural number of seconds.        *)
(* egui's widget memory (which rows are unfolded) is not part of MyApp and *)
(* is not modelled: a click on a row's button stands for a frame in which  *)
(* that row is unfolded and the button is clicked.                         *)
(***************************************************************************)
EXTENDS Integers, Sequences, FiniteSets, TLC

VARIABLES
    timers,          \* MyApp.timers: Seq of Timer records
    start_duration,  \* MyApp.start_duration (minutes of the template)
    displayed_time,  \* MyApp.displayed_time (minutes of the bulk step)
    new_name,        \* MyApp.new_name
    next_timer_id,   \* MyApp.next_timer_id
    running,         \* MyApp.running
    clock,           \* the latest reading of Instant::now()
    audio,           \* per row of the last frame: calls of audio.play()
    op,              \* the last operation: its kind, running before it, and
                     \* the clock readings it made (a frame's now; a save's
                     \* reading for each timer)
    ut               \* the Timer under test of SpecTimer, the last call on it
                     \* and the call before that

vars == <<timers, start_duration, displayed_time, new_name, next_timer_id,
          running, clock, audio, op, ut>>

app_vars == <<timers, start_duration, displayed_time, new_name, next_timer_id,
              running, clock, audio, op>>

----------------------------------------------------------------------------
(* Program constants *)

BASE_TIME == 60

DefaultStep == 10

DefaultDuration == 60

----------------------------------------------------------------------------
(* Bounds of the model *)

\* the board holds at most this many timers
MaxTimers == 2

\* the clock is read at multiples of Quantum seconds (Quantum is the default
\* step, ten minutes), up to MaxClock quanta
MaxClock == 2

\* between two frames the clock advances by at most this many quanta
MaxAdvance == 1

\* a DragValue is edited to k * DefaultStep minutes, k in 0..MaxDrag
MaxDrag == 1

\* add_time and remove_time are not explored when they leave a timer more
\* than this many quanta
MaxDurQ == 2

\* ... or a deadline more than this many quanta before the clock's origin
MaxPastQ == 1

\* u32 identities are modelled IdBits wide
IdBits == 1

\* under SpecSplice the board holds at most this many timers
MaxBoard == 3

\* u64 seconds are modelled WordBits wide
WordBits == 13

Quantum == DefaultStep * BASE_TIME

U32_MOD == 2 ^ IdBits

U64_MOD == 2 ^ WordBits

DURATION_MAX == U64_MOD - 1

\* an Instant is a timespec whose seconds are an i64 (std::time::Instant on
\* unix), modelled as wide as the u64
INSTANT_MAX == 2 ^ (WordBits - 1) - 1

INSTANT_MIN == 0 - 2 ^ (WordBits - 1)

Names == {"torch", "lamp"}

DragChoices == {k * DefaultStep : k \in 0..MaxDrag}

Max(a, b) == IF a >= b THEN a ELSE b

----------------------------------------------------------------------------
(* TimerState and Timer *)

RunUntil(end) == [tag |-> "RunUntil", v |-> end]

Paused(duration) == [tag |-> "Paused", v |-> duration]

\* Duration::from_secs(x * BASE_TIME): the u64 product wraps
FromMinutes(x) == (x * BASE_TIME) % U64_MOD

\* Instant::saturating_duration_since
SaturatingDurationSince(end, now) == IF end >= now THEN end - now ELSE 0

\* Duration::saturating_sub
SaturatingSub(a, b) == IF a >= b THEN a - b ELSE 0

\* the addition that clamps at the greatest i64
SaturatingAddSigned(a, b) == IF a + b > INSTANT_MAX THEN INSTANT_MAX ELSE a + b

\* Duration::saturating_add
SaturatingAdd(a, b) == IF a + b > DURATION_MAX THEN DURATION_MAX ELSE a + b

\* Timer::new.  The field seen is a history variable, not a field of the
\* program: "never" until a frame finds the timer at zero, "zero" while the
\* last frame found it at zero and add_time was not called since, "past" else.
NewTimer(name, duration, id) ==
    [displayed_time |-> DefaultStep,
     name |-> name,
     id |-> id,
     state |-> Paused(FromMinutes(duration)),
     local_pause |-> FALSE,
     played_sound |-> FALSE,
     seen |-> "never"]

RemoveTime(t, removal_time) ==
    LET d == FromMinutes(removal_time)
    IN  IF t.state.tag = "RunUntil"
        THEN [t EXCEPT !.state = RunUntil(t.state.v - d)]
        ELSE [t EXCEPT !.state = Paused(SaturatingSub(t.state.v, d))]

AddTime(t, added_time) ==
    LET d == FromMinutes(added_time)
        s == IF t.seen = "zero" THEN "past" ELSE t.seen
    IN  IF t.state.tag = "RunUntil"
        THEN [t EXCEPT !.state = RunUntil(t.state.v + d), !.seen = s]
        ELSE [t EXCEPT !.state = Paused(SaturatingAdd(t.state.v, d)), !.seen = s]

\* set_time reads the clock itself: instant is that reading
SetTime(t, time, instant) ==
    LET d == FromMinutes(time)
    IN  IF t.state.tag = "RunUntil"
        THEN [t EXCEPT !.state = RunUntil(instant + d)]
        ELSE [t EXCEPT !.state = Paused(d)]

\* time_remaining without the clamp at zero
TimeRemainingUnclamped(t, now) ==
    IF t.state.tag = "RunUntil" THEN t.state.v - now ELSE t.state.v

TimeRemaining(t, now) ==
    IF t.state.tag = "RunUntil"
    THEN SaturatingDurationSince(t.state.v, now)
    ELSE t.state.v

IsPaused(t) == t.state.tag = "Paused"

\* start without the test of the variant
StartUnguarded(t, now) == [t EXCEPT !.state = RunUntil(now + t.state.v)]

\* start that takes the duration for the deadline
StartFromOrigin(t, now) ==
    IF t.state.tag = "Paused"
    THEN [t EXCEPT !.state = RunUntil(t.state.v)]
    ELSE t

Start(t, now) ==
    IF t.state.tag = "Paused"
    THEN [t EXCEPT !.state = RunUntil(now + t.state.v)]
    ELSE t

\* pause that keeps whole minutes only
PauseWholeMinutes(t, time_left) ==
    [t EXCEPT !.state = Paused((time_left \div BASE_TIME) * BASE_TIME)]

Pause(t, time_left) == [t EXCEPT !.state = Paused(time_left)]

\* a call that returned, leaving the timer t
Returns(t) == [t |-> t, panic |-> FALSE]

\* a call that panicked; t is the timer as the call found it
Panics(t) == [t |-> t, panic |-> TRUE]

\* x * BASE_TIME exceeds the u64: the multiplication panics where overflow
\* checks are compiled in, and wraps where they are not
MulOverflows(x) == x * BASE_TIME > DURATION_MAX

\* Instant + Duration and Instant - Duration panic when the result is no Instant
InstantOverflows(i) == i > INSTANT_MAX \/ i < INSTANT_MIN

\* the outcomes of t.remove_time(x), over the builds
RemoveTimeOutcomes(t, x) ==
    (IF MulOverflows(x) THEN {Panics(t)} ELSE {})
       \cup {IF t.state.tag = "RunUntil"
                  /\ InstantOverflows(t.state.v - FromMinutes(x))
              THEN Panics(t)
              ELSE Returns(RemoveTime(t, x))}

\* the outcomes of t.add_time(x), over the builds
AddTimeOutcomes(t, x) ==
    (IF MulOverflows(x) THEN {Panics(t)} ELSE {})
       \cup {IF t.state.tag = "RunUntil"
                  /\ InstantOverflows(t.state.v + FromMinutes(x))
              THEN Panics(t)
              ELSE Returns(AddTime(t, x))}

\* the outcomes of t.set_time(x), which reads the clock at instant
SetTimeOutcomes(t, x, instant) ==
    (IF MulOverflows(x) THEN {Panics(t)} ELSE {})
       \cup {IF t.state.tag = "RunUntil"
                  /\ InstantOverflows(instant + FromMinutes(x))
              THEN Panics(t)
              ELSE Returns(SetTime(t, x, instant))}

\* the outcome of t.start(now)
StartOutcomes(t, now) ==
    {IF t.state.tag = "Paused" /\ InstantOverflows(now + t.state.v)
     THEN Panics(t)
     ELSE Returns(Start(t, now))}

----------------------------------------------------------------------------
(* MyApp::update: one frame *)

\* the increment that does not wrap
IncNoWrap(id) == id + 1

\* u32::wrapping_add(1)
WrappingInc(id) == (id + 1) % U32_MOD

\* the cue that does not set played_sound
CueStepForgets(t, time_left) ==
    [t |-> t, plays |-> IF time_left = 0 /\ ~t.played_sound THEN 1 ELSE 0]

\* lines 251-256: the completion cue of a row that is at zero
CueStep(t, time_left) ==
    IF time_left = 0
    THEN [t     |-> [t EXCEPT !.played_sound = TRUE],
          plays |-> IF t.played_sound THEN 0 ELSE 1]
    ELSE [t |-> t, plays |-> 0]

\* the toggle that forgets to start the timer it releases
LocalToggleNoStart(t, time_left, now, run) ==
    IF t.local_pause
    THEN [t EXCEPT !.local_pause = FALSE]
    ELSE [Pause(t, time_left) EXCEPT !.local_pause = TRUE]

\* lines 259-269: a click on the time label of a row that is not at zero
LocalToggle(t, time_left, now, run) ==
    IF t.local_pause
    THEN [(IF run THEN Start(t, now) ELSE t) EXCEPT !.local_pause = FALSE]
    ELSE [Pause(t, time_left) EXCEPT !.local_pause = TRUE]

\* lines 278-283: the row's add button
RowAdd(t, time_left, now) ==
    LET a == AddTime(t, t.displayed_time)
    IN  IF time_left = 0 /\ TimeRemaining(a, now) # 0
        THEN [a EXCEPT !.played_sound = FALSE]
        ELSE a

\* lines 284-289: the row's remove button, enabled while the row is not at zero
RowRemove(t, time_left) ==
    IF time_left # 0 THEN RemoveTime(t, t.displayed_time) ELSE t

\* lines 290-292: the row's "=" button
RowSet(t, instant) == SetTime(t, t.displayed_time, instant)

\* the spawn that never starts the timer
SpawnTimerPaused(name, duration, id, run, now) == NewTimer(name, duration, id)

\* lines 296-304 and 326-334: the timer a "+" button makes
SpawnTimer(name, duration, id, run, now) ==
    LET t == NewTimer(name, duration, id)
    IN  IF run THEN Start(t, now) ELSE t

NoName == "-"

NoValue == 0 - 1

\* what the user does to one row in one frame
QuietRow ==
    [start_duration |-> NoValue, new_name |-> NoName, name |-> NoName,
     close |-> FALSE, label |-> FALSE, drag |-> NoValue, add |-> FALSE,
     remove |-> FALSE, set |-> FALSE, lag |-> 0, plus |-> FALSE]

\* what the user does to the controls below the rows in one frame
QuietBoard ==
    [start_duration |-> NoValue, new_name |-> NoName, drag |-> NoValue,
     add |-> FALSE, remove |-> FALSE, plus |-> FALSE, startpause |-> FALSE]

\* the history variable seen, as the frame finds the row
Observed(t, time_left) ==
    [t EXCEPT !.seen = IF time_left = 0 THEN "zero"
                       ELSE IF t.seen = "never" THEN "never" ELSE "past"]

\* line 247
NameEdited(t, r) == IF r.name = NoName THEN t ELSE [t EXCEPT !.name = r.name]

\* lines 251-270
LabelShown(t, r, time_left, now, run) ==
    IF time_left # 0 /\ r.label
    THEN LocalToggle(t, time_left, now, run)
    ELSE CueStep(t, time_left).t

\* line 277
StepEdited(t, r) ==
    IF r.drag = NoValue THEN t ELSE [t EXCEPT !.displayed_time = r.drag]

\* lines 278-283
AddClicked(t, r, time_left, now) ==
    IF r.add THEN RowAdd(t, time_left, now) ELSE t

\* lines 284-289
RemoveClicked(t, r, time_left) ==
    IF r.remove THEN RowRemove(t, time_left) ELSE t

\* lines 290-292
SetClicked(t, r, read) == IF r.set THEN RowSet(t, read) ELSE t

\* lines 230-293: what the closure does to the timer of its row
RowTimer(timer, r, time_left, now, run, read) ==
    SetClicked(
      RemoveClicked(
        AddClicked(
          StepEdited(
            LabelShown(NameEdited(Observed(timer, time_left), r),
                       r, time_left, now, run),
            r),
          r, time_left, now),
        r, time_left),
      r, read)

\* the closure without line 235: a closed row is counted in index
RowAtNoDecrement(acc, timer, r, now, run, time_left) ==
    [start_duration |-> IF r.start_duration = NoValue THEN acc.start_duration
                        ELSE r.start_duration,
     new_name |-> IF r.new_name = NoName THEN acc.new_name ELSE r.new_name,
     next_timer_id |-> IF r.plus THEN WrappingInc(acc.next_timer_id)
                       ELSE acc.next_timer_id,
     clock  |-> IF r.set THEN acc.clock + r.lag ELSE acc.clock,
     audio  |-> Append(acc.audio, CueStep(timer, time_left).plays),
     kept   |-> IF r.close THEN acc.kept
                ELSE Append(acc.kept,
                            RowTimer(timer, r, time_left, now, run, acc.clock + r.lag)),
     to_add |-> IF r.plus
                THEN Append(acc.to_add,
                            <<acc.index + 1,
                              SpawnTimer(acc.new_name, acc.start_duration,
                                         acc.next_timer_id, run, now)>>)
                ELSE acc.to_add,
     index  |-> acc.index + 1]

\* lines 229-318: the closure retain_mut runs on one row; acc is what the
\* closure has captured and changed so far, time_left the row's remaining
\* time as the frame began
RowAt(acc, timer, r, now, run, time_left) ==
    [start_duration |-> IF r.start_duration = NoValue THEN acc.start_duration
                        ELSE r.start_duration,
     new_name |-> IF r.new_name = NoName THEN acc.new_name ELSE r.new_name,
     next_timer_id |-> IF r.plus THEN WrappingInc(acc.next_timer_id)
                       ELSE acc.next_timer_id,
     clock  |-> IF r.set THEN acc.clock + r.lag ELSE acc.clock,
     audio  |-> Append(acc.audio, CueStep(timer, time_left).plays),
     kept   |-> IF r.close THEN acc.kept
                ELSE Append(acc.kept,
                            RowTimer(timer, r, time_left, now, run, acc.clock + r.lag)),
     to_add |-> IF r.plus
                THEN Append(acc.to_add,
                            <<IF r.close THEN acc.index ELSE acc.index + 1,
                              SpawnTimer(acc.new_name, acc.start_duration,
                                         acc.next_timer_id, run, now)>>)
                ELSE acc.to_add,
     index  |-> IF r.close THEN acc.index ELSE acc.index + 1]

Row(acc, timer, r, now, run) ==
    RowAt(acc, timer, r, now, run, TimeRemaining(timer, now))

\* lines 228-319: retain_mut runs the closure on the rows in order
Rows(acc0, ts, rs, now, run) ==
    LET after[k \in 0..Len(ts)] ==
            IF k = 0 THEN acc0 ELSE Row(after[k - 1], ts[k], rs[k], now, run)
    IN  after[Len(ts)]

\* Vec::insert(index, timer) with a 0-based index; it panics when index is
\* greater than the length (see SplicePanics), and inserts nothing then
InsertAt(s, index, t) ==
    IF index > Len(s) THEN s
    ELSE SubSeq(s, 1, index) \o <<t>> \o SubSeq(s, index + 1, Len(s))

\* lines 320-322: the queued timers are inserted one after the other;
\* SpliceSteps(s, to_add)[k] is the list after k insertions
SpliceSteps(s, to_add) ==
    [k \in 0..Len(to_add) |->
        LET after[j \in 0..k] ==
                IF j = 0 THEN s
                ELSE InsertAt(after[j - 1], to_add[j][1], to_add[j][2])
        IN  after[k]]

Splice(s, to_add) == SpliceSteps(s, to_add)[Len(to_add)]

\* line 321: some insertion finds its index beyond the end of the list
SplicePanics(s, to_add) ==
    \E k \in 1..Len(to_add) : to_add[k][1] > Len(SpliceSteps(s, to_add)[k - 1])

\* the bulk add without the test of local_pause
BulkAddAll(ts, x) == [i \in DOMAIN ts |-> AddTime(ts[i], x)]

\* lines 345-351
BulkAdd(ts, x) ==
    [i \in DOMAIN ts |-> IF ~ts[i].local_pause THEN AddTime(ts[i], x) ELSE ts[i]]

\* lines 352-358
BulkRemove(ts, x) ==
    [i \in DOMAIN ts |-> IF ~ts[i].local_pause THEN RemoveTime(ts[i], x) ELSE ts[i]]

\* the global start without the test of local_pause
GlobalStartAll(ts, now) ==
    [i \in DOMAIN ts |-> IF IsPaused(ts[i]) THEN Start(ts[i], now) ELSE ts[i]]

\* lines 360-366
GlobalStart(ts, now) ==
    [i \in DOMAIN ts |->
        IF IsPaused(ts[i]) /\ ~ts[i].local_pause THEN Start(ts[i], now) ELSE ts[i]]

\* the global pause that passes over the timers that have run out
GlobalPauseSkipsDone(ts, now) ==
    [i \in DOMAIN ts |->
        IF ~IsPaused(ts[i]) /\ TimeRemaining(ts[i], now) # 0
        THEN Pause(ts[i], TimeRemaining(ts[i], now))
        ELSE ts[i]]

\* lines 368-375
GlobalPause(ts, now) ==
    [i \in DOMAIN ts |->
        IF ~IsPaused(ts[i]) THEN Pause(ts[i], TimeRemaining(ts[i], now)) ELSE ts[i]]

\* lines 323-340: the controls of an empty board; s is the board after the
\* splice
EmptyControls(a, acc, s, b, now) ==
    [timers |-> IF s = <<>> /\ b.plus
                THEN <<SpawnTimer(acc.new_name, acc.start_duration,
                                  acc.next_timer_id, a.running, now)>>
                ELSE s,
     start_duration |-> IF s = <<>> /\ b.start_duration # NoValue
                        THEN b.start_duration ELSE acc.start_duration,
     new_name |-> IF s = <<>> /\ b.new_name # NoName THEN b.new_name
                  ELSE acc.new_name,
     next_timer_id |-> IF s = <<>> /\ b.plus THEN WrappingInc(acc.next_timer_id)
                       ELSE acc.next_timer_id]

\* lines 345-358: the bulk buttons, with the bulk step dt
BulkClicked(ts, b, dt) ==
    IF b.add /\ b.remove THEN BulkRemove(BulkAdd(ts, dt), dt)
    ELSE IF b.add THEN BulkAdd(ts, dt)
    ELSE IF b.remove THEN BulkRemove(ts, dt)
    ELSE ts

\* lines 359-376: the start button, or the pause button
StartPauseClicked(ts, b, now, run) ==
    IF ~b.startpause THEN ts
    ELSE IF ~run THEN GlobalStart(ts, now) ELSE GlobalPause(ts, now)

\* lines 342-378: the controls of a board that is not empty; e is what the
\* controls of the empty board left
BoardControls(a, acc, e, b, now) ==
    [timers |-> IF e.timers = <<>> THEN e.timers
                ELSE StartPauseClicked(
                        BulkClicked(e.timers, b,
                                    IF b.drag # NoValue THEN b.drag
                                    ELSE a.displayed_time),
                        b, now, a.running),
     start_duration |-> e.start_duration,
     displayed_time |-> IF e.timers # <<>> /\ b.drag # NoValue THEN b.drag
                        ELSE a.displayed_time,
     new_name |-> e.new_name,
     next_timer_id |-> e.next_timer_id,
     running |-> IF e.timers # <<>> /\ b.startpause THEN ~a.running ELSE a.running,
     clock |-> acc.clock,
     audio |-> acc.audio,
     panic |-> SplicePanics(acc.kept, acc.to_add)]

\* lines 320-378: what update does after the rows
AfterRows(a, acc, b, now) ==
    BoardControls(a, acc,
                  EmptyControls(a, acc, Splice(acc.kept, acc.to_add), b, now),
                  b, now)

\* lines 223-381: update, on the fields a of MyApp, with the frame's input
\* (rs for the rows, b for the controls below them) and its clock reading
Update(a, rs, b, now) ==
    AfterRows(a,
              Rows([start_duration |-> a.start_duration, new_name |-> a.new_name,
                    next_timer_id |-> a.next_timer_id, clock |-> now,
                    audio |-> <<>>, kept |-> <<>>, to_add |-> <<>>, index |-> 0],
                   a.timers, rs, now, a.running),
              b, now)

----------------------------------------------------------------------------
(* Persistence: MyApp::save at shutdown and MyApp::new at the next start *)

\* the conversion that takes the deadline for the duration
ToDurationRaw(state, instant) == state.v

\* lines 26-33: From<TimerState> for Duration; instant is its clock reading
ToDuration(state, instant) ==
    IF state.tag = "RunUntil"
    THEN SaturatingDurationSince(state.v, instant)
    ELSE state.v

\* lines 20-24: From<Duration> for TimerState
FromDuration(value) == Paused(value)

\* lines 13-14, 35-44: a Timer written with serde and read back
SaveLoadTimer(t, instant) ==
    [t EXCEPT !.state = FromDuration(ToDuration(t.state, instant))]

\* lines 166-178, 207-211, 219-221: MyApp written and read back; running is
\* skipped and audio is made anew.  reads[i] is the clock reading of timer i
SaveLoad(a, reads) ==
    [timers |-> [i \in DOMAIN a.timers |-> SaveLoadTimer(a.timers[i], reads[i])],
     start_duration |-> a.start_duration,
     displayed_time |-> a.displayed_time,
     new_name |-> a.new_name,
     next_timer_id |-> a.next_timer_id,
     running |-> FALSE]

----------------------------------------------------------------------------
(* The board: specification Spec *)

App ==
    [timers |-> timers, start_duration |-> start_duration,
     displayed_time |-> displayed_time, new_name |-> new_name,
     next_timer_id |-> next_timer_id, running |-> running]

FixedTimer == NewTimer("torch", DefaultDuration, 0)

NoCall ==
    [now |-> 0, panic |-> FALSE, call |-> "none", before |-> FixedTimer,
     arg |-> 0, ret |-> 0]

\* lines 180-192: MyApp::default
Init ==
    /\ timers = <<NewTimer("torch", DefaultDuration, 0)>>
    /\ start_duration = DefaultDuration
    /\ displayed_time = DefaultStep
    /\ new_name = "torch"
    /\ next_timer_id = 0
    /\ running = FALSE
    /\ clock = 0
    /\ audio = <<>>
    /\ op = [panic |-> FALSE, run |-> FALSE, kind |-> "new", at |-> <<>>,
             rows |-> <<>>]
    /\ ut = [t |-> FixedTimer, last |-> NoCall, prev |-> NoCall]

MaxInstant == MaxClock * Quantum

\* the bound on the adjustments explored: a timer that add_time or
\* remove_time changed is left with at most MaxDurQ quanta, its deadline at
\* most MaxPastQ quanta before the clock's origin
WithinBounds(old, new, now) ==
    \A i \in DOMAIN new :
        new[i].state # old[i].state =>
            /\ TimeRemaining(new[i], now) <= MaxDurQ * Quantum
            /\ new[i].state.v >= 0 - MaxPastQ * Quantum

\* one call of update: the clock has advanced by k quanta, the user did rs to
\* the rows and b to the controls below them.  The frames explored leave at
\* most n timers and the clock at most at horizon.  op.rows tells, for a
\* frame of kind "splice", which rows were closed and which spawned
FrameUpTo(k, rs, b, kind, n, horizon) ==
    \E nb \in {Update(App, rs, b, clock + k * Quantum)} :
        /\ nb.clock <= horizon
        /\ kind \in {"add_time", "remove_time", "bulk_add", "bulk_remove"}
              => WithinBounds(timers, nb.timers, clock + k * Quantum)
        /\ Len(nb.timers) <= n
        /\ timers' = nb.timers
        /\ start_duration' = nb.start_duration
        /\ displayed_time' = nb.displayed_time
        /\ new_name' = nb.new_name
        /\ next_timer_id' = nb.next_timer_id
        /\ running' = nb.running
        /\ clock' = nb.clock
        /\ audio' = nb.audio
        /\ op' = [panic |-> nb.panic, run |-> running, kind |-> kind,
                  at |-> <<clock + k * Quantum>>,
                  rows |-> IF kind = "splice"
                           THEN [j \in DOMAIN rs |->
                                   [close |-> rs[j].close, plus |-> rs[j].plus]]
                           ELSE <<>>]
        /\ UNCHANGED ut

Frame(k, rs, b, kind) == FrameUpTo(k, rs, b, kind, MaxTimers, MaxInstant)

Quiet == [j \in 1..Len(timers) |-> QuietRow]

OnRow(i, r) == [j \in 1..Len(timers) |-> IF j = i THEN r ELSE QuietRow]

Left(i, k) == TimeRemaining(timers[i], clock + k * Quantum)

\* a frame without input (the repaint requested at line 379)
Idle ==
    \E k \in 0..MaxAdvance : Frame(k, Quiet, QuietBoard, "idle")

\* line 233
RemoveTimer ==
    \E k \in 0..MaxAdvance, i \in 1..Len(timers) :
        Frame(k, OnRow(i, [QuietRow EXCEPT !.close = TRUE]), QuietBoard, "remove_timer")

\* line 247
Rename ==
    \E k \in 0..MaxAdvance, i \in 1..Len(timers), n \in Names :
        /\ n # timers[i].name
        /\ Frame(k, OnRow(i, [QuietRow EXCEPT !.name = n]), QuietBoard, "rename")

\* line 259: the label is there while the row is not at zero
LocalPauseToggle ==
    \E k \in 0..MaxAdvance, i \in 1..Len(timers) :
        /\ Left(i, k) # 0
        /\ Frame(k, OnRow(i, [QuietRow EXCEPT !.label = TRUE]), QuietBoard, "local_toggle")

\* line 277
EditStep ==
    \E k \in 0..MaxAdvance, i \in 1..Len(timers), x \in DragChoices :
        /\ x # timers[i].displayed_time
        /\ Frame(k, OnRow(i, [QuietRow EXCEPT !.drag = x]), QuietBoard, "edit_step")

\* line 278
RowAddTime ==
    \E k \in 0..MaxAdvance, i \in 1..Len(timers) :
        Frame(k, OnRow(i, [QuietRow EXCEPT !.add = TRUE]), QuietBoard, "add_time")

\* line 284: the button is enabled while the row is not at zero
RowRemoveTime ==
    \E k \in 0..MaxAdvance, i \in 1..Len(timers) :
        /\ Left(i, k) # 0
        /\ Frame(k, OnRow(i, [QuietRow EXCEPT !.remove = TRUE]), QuietBoard, "remove_time")

\* line 290: set_time reads the clock lag quanta after the frame did
RowSetTime ==
    \E k \in 0..MaxAdvance, i \in 1..Len(timers), lag \in 0..1 :
        Frame(k, OnRow(i, [QuietRow EXCEPT !.set = TRUE, !.lag = lag * Quantum]),
              QuietBoard, "set_time")

\* line 295
RowSpawn ==
    \E k \in 0..MaxAdvance, i \in 1..Len(timers) :
        Frame(k, OnRow(i, [QuietRow EXCEPT !.plus = TRUE]), QuietBoard, "spawn")

\* lines 308 and 337
EditNewName ==
    \E k \in 0..MaxAdvance, n \in Names :
        /\ n # new_name
        /\ \/ \E i \in 1..Len(timers) :
                Frame(k, OnRow(i, [QuietRow EXCEPT !.new_name = n]), QuietBoard,
                      "edit_new_name")
           \/ /\ timers = <<>>
              /\ Frame(k, Quiet, [QuietBoard EXCEPT !.new_name = n], "edit_new_name")

\* lines 309 and 338
EditStartDuration ==
    \E k \in 0..MaxAdvance, x \in DragChoices :
        /\ x # start_duration
        /\ \/ \E i \in 1..Len(timers) :
                Frame(k, OnRow(i, [QuietRow EXCEPT !.start_duration = x]), QuietBoard,
                      "edit_start_duration")
           \/ /\ timers = <<>>
              /\ Frame(k, Quiet, [QuietBoard EXCEPT !.start_duration = x],
                       "edit_start_duration")

\* line 325
EmptySpawn ==
    \E k \in 0..MaxAdvance :
        /\ timers = <<>>
        /\ Frame(k, Quiet, [QuietBoard EXCEPT !.plus = TRUE], "spawn")

\* line 344
EditBulkStep ==
    \E k \in 0..MaxAdvance, x \in DragChoices :
        /\ timers # <<>>
        /\ x # displayed_time
        /\ Frame(k, Quiet, [QuietBoard EXCEPT !.drag = x], "edit_bulk_step")

\* line 345
BulkAddTime ==
    \E k \in 0..MaxAdvance :
        /\ timers # <<>>
        /\ Frame(k, Quiet, [QuietBoard EXCEPT !.add = TRUE], "bulk_add")

\* line 352
BulkRemoveTime ==
    \E k \in 0..MaxAdvance :
        /\ timers # <<>>
        /\ Frame(k, Quiet, [QuietBoard EXCEPT !.remove = TRUE], "bulk_remove")

\* line 360
GlobalStartClick ==
    \E k \in 0..MaxAdvance :
        /\ timers # <<>>
        /\ ~running
        /\ Frame(k, Quiet, [QuietBoard EXCEPT !.startpause = TRUE], "global_start")

\* line 368
GlobalPauseClick ==
    \E k \in 0..MaxAdvance :
        /\ timers # <<>>
        /\ running
        /\ Frame(k, Quiet, [QuietBoard EXCEPT !.startpause = TRUE], "global_pause")

\* the clock readings n calls of Instant::now() can return after the reading
\* from: each at most a quantum later, none before the one before it
Readings(n, from) ==
    {r \in [1..n -> {from + j * Quantum : j \in 0..1}] :
        \A i \in 1..n, j \in 1..n : i <= j => r[i] <= r[j]}

\* the app is closed and opened again
Restart ==
    \E reads \in Readings(Len(timers), clock) :
        LET nb == SaveLoad(App, reads)
            last == IF reads = <<>> THEN clock ELSE reads[Len(reads)]
        IN  /\ last <= MaxInstant
            /\ timers' = nb.timers
            /\ start_duration' = nb.start_duration
            /\ displayed_time' = nb.displayed_time
            /\ new_name' = nb.new_name
            /\ next_timer_id' = nb.next_timer_id
            /\ running' = nb.running
            /\ clock' = last
            /\ audio' = <<>>
            /\ op' = [panic |-> FALSE, run |-> running, kind |-> "restart",
                      at |-> reads, rows |-> <<>>]
            /\ UNCHANGED ut

\* the frames in which the user leaves the names, the steps and the template
\* as they are
Next ==
    \/ Idle
    \/ RemoveTimer
    \/ LocalPauseToggle
    \/ RowAddTime
    \/ RowRemoveTime
    \/ RowSetTime
    \/ RowSpawn
    \/ EmptySpawn
    \/ BulkAddTime
    \/ BulkRemoveTime
    \/ GlobalStartClick
    \/ GlobalPauseClick
    \/ Restart

Spec == Init /\ [][Next]_vars

\* a board of one timer, with the edits of names, steps and template
NextEdit ==
    \/ Idle
    \/ RemoveTimer
    \/ Rename
    \/ LocalPauseToggle
    \/ EditStep
    \/ RowAddTime
    \/ RowRemoveTime
    \/ RowSetTime
    \/ EditNewName
    \/ EditStartDuration
    \/ EmptySpawn
    \/ EditBulkStep
    \/ BulkAddTime
    \/ BulkRemoveTime
    \/ GlobalStartClick
    \/ GlobalPauseClick
    \/ Restart

SpecEdit == Init /\ [][NextEdit]_vars

----------------------------------------------------------------------------
(* The board with several rows clicked in one frame: specification        *)
(* SpecSplice.  A frame closes any of the rows and spawns from any of     *)
(* them; the board is started and paused.                                  *)

\* what a frame of SpecSplice does to a row: its close button, its + button
RowInputs == {[QuietRow EXCEPT !.close = c, !.plus = p] : c, p \in BOOLEAN}

\* lines 228-322
SpliceFrame ==
    \E k \in 0..MaxAdvance, rs \in [1..Len(timers) -> RowInputs] :
        FrameUpTo(k, rs, QuietBoard, "splice", MaxBoard, MaxInstant)

NextSplice ==
    \/ SpliceFrame
    \/ EmptySpawn
    \/ GlobalStartClick
    \/ GlobalPauseClick

SpecSplice == Init /\ [][NextSplice]_vars

----------------------------------------------------------------------------
(* The board with its template edited: specification SpecSpawn.  Timers    *)
(* are spawned and removed, the template's duration is edited and the     *)
(* board started and paused.                                               *)

NextSpawn ==
    \/ Idle
    \/ RemoveTimer
    \/ RowSpawn
    \/ EmptySpawn
    \/ EditStartDuration
    \/ GlobalStartClick
    \/ GlobalPauseClick

SpecSpawn == Init /\ [][NextSpawn]_vars

----------------------------------------------------------------------------
(* The board of one row with the frames that egui keeps requesting:        *)
(* specification SpecLive.  The user starts and pauses the board and the  *)
(* row, adds time and sets the time, until the clock has passed            *)
(* MaxInstant; the frames without input go on until every deadline that    *)
(* the input can have set has passed.                                      *)

\* the latest deadline a frame up to MaxInstant can set
LiveHorizon ==
    MaxInstant + Max(DefaultDuration * BASE_TIME, (MaxDurQ + 1) * Quantum)

\* line 379: the frame that request_repaint_after brings about, a quantum
\* after the frame before
Tick == FrameUpTo(1, Quiet, QuietBoard, "idle", MaxTimers, LiveHorizon)

NextLive ==
    \/ Tick
    \/ LocalPauseToggle
    \/ RowAddTime
    \/ RowSetTime
    \/ GlobalStartClick
    \/ GlobalPauseClick

\* egui calls update again after every frame (line 379)
SpecLive == Init /\ [][NextLive]_vars /\ WF_vars(Tick)

----------------------------------------------------------------------------
(* Claims about the board, checked under Spec *)

Now == op.at[1]

\* C1: the completion cue is one-shot per zero-crossing.  In every frame
\* audio.play() is called at most once for a row; it is called for no row
\* whose remaining time is not zero; it is called once for a row that the
\* frame finds at zero for the first time, or for the first time since an
\* add_time or an observation above zero; it is not called for a row that
\* the frame before found at zero and that add_time did not touch since; and
\* every timer a frame found at zero has played_sound set.
C1_CueOneShot ==
    [][ op'.kind # "restart" =>
          /\ Len(audio') = Len(timers)
          /\ \A i \in 1..Len(timers) :
                /\ audio'[i] \in {0, 1}
                /\ TimeRemaining(timers[i], op'.at[1]) # 0 => audio'[i] = 0
                /\ (TimeRemaining(timers[i], op'.at[1]) = 0 /\ timers[i].seen # "zero")
                      => audio'[i] = 1
                /\ (TimeRemaining(timers[i], op'.at[1]) = 0 /\ timers[i].seen = "zero")
                      => audio'[i] = 0
          /\ \A j \in 1..Len(timers') :
                timers'[j].seen = "zero" => timers'[j].played_sound
      ]_vars

\* C2: after the row's add_time, the bulk add or set_time has taken a timer
\* from zero remaining to non-zero remaining, played_sound is false.
C2_FlagResets ==
    [][ op'.kind \in {"add_time", "bulk_add", "set_time"} =>
          \A i \in 1..Len(timers) :
             (/\ TimeRemaining(timers[i], op'.at[1]) = 0
              /\ TimeRemaining(timers'[i], op'.at[1]) # 0)
                => ~timers'[i].played_sound
      ]_vars

\* C3: no two timers of the board share an identity.
C3_UniqueIds ==
    \A i \in 1..Len(timers), j \in 1..Len(timers) :
        i # j => timers[i].id # timers[j].id

\* C4: global_start at now turns every Paused(d) timer with local_pause
\* false into RunUntil(now + d) and sets running; a timer with local_pause
\* true stays Paused with its duration, a running timer keeps its deadline.
C4_GlobalStart ==
    [][ op'.kind = "global_start" =>
          /\ running'
          /\ Len(timers') = Len(timers)
          /\ \A i \in 1..Len(timers) :
                /\ (timers[i].state.tag = "Paused" /\ ~timers[i].local_pause)
                      => timers'[i].state = RunUntil(op'.at[1] + timers[i].state.v)
                /\ timers[i].local_pause
                      => /\ timers'[i].state.tag = "Paused"
                         /\ timers'[i].state = timers[i].state
                         /\ timers'[i].local_pause
                /\ timers[i].state.tag = "RunUntil"
                      => timers'[i].state = timers[i].state
      ]_vars

\* the global start has left a locally paused timer Paused and started another
C4_Witness ==
    /\ op.kind = "global_start"
    /\ running
    /\ \E i \in 1..Len(timers), j \in 1..Len(timers) :
          /\ timers[i].local_pause
          /\ timers[i].state.tag = "Paused"
          /\ timers[i].state.v > 0
          /\ ~timers[j].local_pause
          /\ timers[j].state.tag = "RunUntil"
          /\ timers[j].state.v > Now

\* C5: global_pause at now turns every RunUntil(deadline) timer into
\* Paused(max(0, deadline - now)), leaves the Paused timers as they are and
\* clears running; after it every timer is Paused.
C5_GlobalPause ==
    [][ op'.kind = "global_pause" =>
          /\ ~running'
          /\ Len(timers') = Len(timers)
          /\ \A i \in 1..Len(timers) :
                /\ timers[i].state.tag = "RunUntil"
                      => timers'[i].state =
                            Paused(Max(0, timers[i].state.v - op'.at[1]))
                /\ timers[i].state.tag = "Paused"
                      => timers'[i].state = timers[i].state
                /\ timers'[i].state.tag = "Paused"
      ]_vars

\* the global pause came a quantum or more after the start of a timer of the
\* default hour, and left it Paused with less than the hour
C5_Witness ==
    /\ op.kind = "global_pause"
    /\ ~running
    /\ \E i \in 1..Len(timers) :
          /\ ~timers[i].local_pause
          /\ timers[i].state.tag = "Paused"
          /\ timers[i].state.v > MaxDurQ * Quantum
          /\ timers[i].state.v < DefaultDuration * BASE_TIME

\* C6: the bulk add and the bulk remove leave a timer with local_pause true
\* as it was (but for the cue of the same frame), whatever running is, and
\* change a timer with local_pause false as add_time, or remove_time, with
\* the bulk step does.
C6_BulkSkipsLocal ==
    [][ op'.kind \in {"bulk_add", "bulk_remove"} =>
          /\ Len(timers') = Len(timers)
          /\ \A i \in 1..Len(timers) :
                /\ timers'[i].name = timers[i].name
                /\ timers'[i].id = timers[i].id
                /\ timers'[i].local_pause = timers[i].local_pause
                /\ timers'[i].displayed_time = timers[i].displayed_time
                /\ timers'[i].played_sound =
                      (timers[i].played_sound
                         \/ TimeRemaining(timers[i], op'.at[1]) = 0)
                /\ timers[i].local_pause => timers'[i].state = timers[i].state
                /\ ~timers[i].local_pause =>
                      timers'[i].state =
                         IF op'.kind = "bulk_add"
                         THEN AddTime(timers[i], displayed_time).state
                         ELSE RemoveTime(timers[i], displayed_time).state
      ]_vars

\* a bulk add of ten minutes, while running, has passed over a locally paused
\* timer and moved the deadline of a running one
C6_Witness ==
    /\ op.kind = "bulk_add"
    /\ running
    /\ displayed_time = DefaultStep
    /\ \E i \in 1..Len(timers), j \in 1..Len(timers) :
          /\ timers[i].local_pause
          /\ timers[i].state = Paused(Quantum)
          /\ ~timers[j].local_pause
          /\ timers[j].state.tag = "RunUntil"
          /\ timers[j].state.v = Now + 2 * Quantum

\* C7: a click on the label of a row flips its local_pause and no other:
\* turned on at now, the timer is Paused(time_remaining(now)), whatever
\* running is; turned off while running, a Paused(d) timer is
\* RunUntil(now + d); turned off while not running, the timer stays Paused
\* with its duration.
C7_LocalToggle ==
    [][ op'.kind = "local_toggle" =>
          /\ Len(timers') = Len(timers)
          /\ Cardinality({i \in 1..Len(timers) :
                            timers'[i].local_pause # timers[i].local_pause}) = 1
          /\ \A i \in 1..Len(timers) :
                IF timers'[i].local_pause = timers[i].local_pause
                THEN timers'[i].state = timers[i].state
                ELSE IF ~timers[i].local_pause
                THEN timers'[i].state =
                        Paused(TimeRemaining(timers[i], op'.at[1]))
                ELSE IF running
                THEN /\ timers[i].state.tag = "Paused"
                     /\ timers'[i].state =
                           RunUntil(op'.at[1] + timers[i].state.v)
                ELSE /\ timers[i].state.tag = "Paused"
                     /\ timers'[i].state = timers[i].state
      ]_vars

\* local pause was turned off while running, a quantum or more after the
\* timer was paused, and the timer runs again with all it had
C7_Witness ==
    /\ op.kind = "local_toggle"
    /\ running
    /\ Now > 0
    /\ \E i \in 1..Len(timers) :
          /\ ~timers[i].local_pause
          /\ timers[i].state = RunUntil(Now + DefaultDuration * BASE_TIME)

\* C8: after save and load every timer is Paused with the time it had left
\* as it was saved (a RunUntil timer its deadline less the reading of the
\* clock, clamped at zero; a Paused timer its duration); the order, the
\* names, the identities and the local_pause flags are kept; running is
\* false.
C8_SaveLoad ==
    [][ op'.kind = "restart" =>
          /\ ~running'
          /\ Len(timers') = Len(timers)
          /\ \A i \in 1..Len(timers) :
                /\ timers'[i].state =
                      Paused(IF timers[i].state.tag = "RunUntil"
                             THEN Max(0, timers[i].state.v - op'.at[i])
                             ELSE timers[i].state.v)
                /\ timers'[i].name = timers[i].name
                /\ timers'[i].id = timers[i].id
                /\ timers'[i].local_pause = timers[i].local_pause
      ]_vars

\* the app was closed while running, with a locally paused timer and a
\* running one, a quantum or more after the running one was started
C8_Witness ==
    /\ op.kind = "restart"
    /\ op.run
    /\ ~running
    /\ Len(timers) = 2
    /\ \E i \in 1..2, j \in 1..2 :
          /\ timers[i].local_pause
          /\ ~timers[j].local_pause
          /\ timers[j].state.tag = "Paused"
          /\ timers[j].state.v > 0
          /\ timers[j].state.v < DefaultDuration * BASE_TIME
          /\ op.at[j] > 0

\* C16: a timer is RunUntil if and only if the board is running and the
\* timer's local_pause is false; so while the board is not running every
\* timer is Paused, and a timer with local_pause true never runs.
C16_RunIffGlobal ==
    \A i \in 1..Len(timers) :
        (timers[i].state.tag = "RunUntil") <=> (running /\ ~timers[i].local_pause)

\* a label was clicked on a running board that now has a locally paused
\* timer beside a running one
C16_Witness ==
    /\ op.kind = "local_toggle"
    /\ running
    /\ \E i \in 1..Len(timers), j \in 1..Len(timers) :
          /\ timers[i].local_pause
          /\ timers[i].state.tag = "Paused"
          /\ ~timers[j].local_pause
          /\ timers[j].state.tag = "RunUntil"

\* C18: time is conserved across pause and resume.  Over a frame that calls
\* none of add_time, remove_time and set_time (a frame without input, a
\* global start or pause, a local toggle), a timer that was Paused has the
\* remaining time it had, and a timer that was running has it less the time
\* elapsed since the frame before, floored at zero.
C18_TimeConserved ==
    [][ op'.kind \in {"idle", "global_start", "global_pause", "local_toggle"} =>
          /\ Len(timers') = Len(timers)
          /\ \A i \in 1..Len(timers) :
                TimeRemaining(timers'[i], clock') =
                   IF timers[i].state.tag = "RunUntil"
                   THEN Max(0, TimeRemaining(timers[i], clock) - (clock' - clock))
                   ELSE timers[i].state.v
      ]_vars

\* the default hour ran for a while, was paused for a while, ran again, and
\* was then paused by its label with what the running time left of it
C18_Witness ==
    /\ op.kind = "local_toggle"
    /\ Now = MaxInstant
    /\ \E i \in 1..Len(timers) :
          /\ timers[i].local_pause
          /\ timers[i].state.tag = "Paused"
          /\ timers[i].id = 0
          /\ timers[i].state.v = DefaultDuration * BASE_TIME - Quantum

----------------------------------------------------------------------------
(* Claims about spawning, checked under SpecSpawn *)

\* C14: a + button, of a row or of the empty board, clicked at now with the
\* template at m minutes, makes one timer with local_pause and played_sound
\* false, RunUntil(now + 60 * m) if the board is running and Paused(60 * m)
\* if not, leaves the other timers in their order and state, and advances
\* next_timer_id by one, wrapping.
C14_Spawn ==
    [][ op'.kind = "spawn" =>
          /\ next_timer_id' = (next_timer_id + 1) % U32_MOD
          /\ Len(timers') = Len(timers) + 1
          /\ \E j \in 1..Len(timers') :
                /\ ~timers'[j].local_pause
                /\ ~timers'[j].played_sound
                /\ timers'[j].state =
                      IF running
                      THEN RunUntil(op'.at[1] + BASE_TIME * start_duration)
                      ELSE Paused(BASE_TIME * start_duration)
                /\ \A i \in 1..Len(timers) :
                      timers'[IF i < j THEN i ELSE i + 1].state = timers[i].state
      ]_vars

\* a row's + was clicked on a running board, after the clock's origin, with
\* the template edited to ten minutes
C14_Witness ==
    /\ op.kind = "spawn"
    /\ op.run
    /\ Now > 0
    /\ start_duration = DefaultStep
    /\ Len(timers) = MaxTimers
    /\ timers[2].state = RunUntil(Now + BASE_TIME * DefaultStep)
    /\ timers[1].state # timers[2].state

----------------------------------------------------------------------------
(* Claims about the splice, checked under SpecSplice *)

\* the identity the timer spawned by row k of a frame is given: the counter,
\* advanced once for every row before k that spawned
SpawnId(k) ==
    (next_timer_id + Cardinality({q \in 1..(k - 1) : op'.rows[q].plus})) % U32_MOD

\* C17: after a frame in which any rows were closed and any rows spawned,
\* the timer that a row spawned (a row that was not closed) stands
\* immediately after that row.
C17_SpliceAfterRow ==
    [][ op'.kind = "splice" =>
          \A k \in 1..Len(timers) :
             (op'.rows[k].plus /\ ~op'.rows[k].close) =>
                \E j \in 1..(Len(timers') - 1) :
                   /\ timers'[j].id = timers[k].id
                   /\ timers'[j].name = timers[k].name
                   /\ timers'[j].state = timers[k].state
                   /\ timers'[j + 1].id = SpawnId(k)
                   /\ timers'[j + 1].name = new_name
                   /\ timers'[j + 1].state =
                         SpawnTimer(new_name, start_duration, SpawnId(k), running,
                                    op'.at[1]).state
      ]_vars

\* C20: in a frame in which any rows were closed and any rows spawned, every
\* queued timer is inserted at an index that is at most the length of the
\* list at that moment, and the list is left with its old length, less the
\* rows closed, plus the timers spawned.
C20_SpliceInBounds ==
    [][ op'.kind = "splice" =>
          /\ ~op'.panic
          /\ Len(timers') =
                Len(timers)
                  - Cardinality({k \in 1..Len(timers) : op'.rows[k].close})
                  + Cardinality({k \in 1..Len(timers) : op'.rows[k].plus})
      ]_vars

\* the last of two rows was closed in the frame in which it spawned, as did
\* the row before it
C20_Witness ==
    /\ op.kind = "splice"
    /\ Len(op.rows) = 2
    /\ op.rows[1].plus
    /\ ~op.rows[1].close
    /\ op.rows[2].plus
    /\ op.rows[2].close
    /\ Len(timers) = MaxBoard

----------------------------------------------------------------------------
(* Claims about the frames without input, checked under SpecLive *)

\* a running timer is done: a frame found it at zero and showed it as done,
\* and its cue was played
RunningAreDone ==
    \A i \in 1..Len(timers) :
        timers[i].state.tag = "RunUntil" =>
            /\ TimeRemaining(timers[i], clock) = 0
            /\ timers[i].seen = "zero"
            /\ timers[i].played_sound

\* C19: if from some point on every frame is a frame without input, then,
\* the frames going on and the clock advancing, every running timer is in
\* the end at zero, shown as done, with played_sound true.
C19_EventuallyDone ==
    <>[][op'.kind = "idle"]_vars => <>[]RunningAreDone

\* after the last input, a frame without input has found a running timer
\* past its deadline
C19_Witness ==
    /\ op.kind = "idle"
    /\ clock > MaxInstant
    /\ \E i \in 1..Len(timers) :
          /\ timers[i].state.tag = "RunUntil"
          /\ timers[i].state.v > MaxInstant
          /\ TimeRemaining(timers[i], clock) = 0
          /\ timers[i].played_sound

----------------------------------------------------------------------------
(* The methods of one Timer, called with arguments from bounded sets:      *)
(* specification SpecTimer.  ut.t is the timer, ut.last the last call:     *)
(* the timer before it, its argument and what it returned; ut.prev is the  *)
(* call before the last.                                                   *)

\* durations and instants are multiples of half a minute ...
TestStep == BASE_TIME \div 2

\* ... up to this many of them
MaxTestK == 4

\* add_time, remove_time, set_time and new are called with 0..MaxTestMinutes
MaxTestMinutes == 2

TestDurations == {k * TestStep : k \in 0..MaxTestK}

TestInstants == {k * TestStep : k \in 0..MaxTestK}

TestStates ==
    {Paused(d) : d \in TestDurations} \cup {RunUntil(e) : e \in TestInstants}

\* the calls explored leave the timer's duration or deadline in this range
InTestRange(t) ==
    /\ t.state.v <= 2 * MaxTestK * TestStep
    /\ t.state.v >= 0 - 2 * MaxTestK * TestStep

InitTimer ==
    /\ timers = <<NewTimer("torch", DefaultDuration, 0)>>
    /\ start_duration = DefaultDuration
    /\ displayed_time = DefaultStep
    /\ new_name = "torch"
    /\ next_timer_id = 0
    /\ running = FALSE
    /\ clock = 0
    /\ audio = <<>>
    /\ op = [panic |-> FALSE, run |-> FALSE, kind |-> "new", at |-> <<>>,
             rows |-> <<>>]
    /\ \E st \in TestStates :
          ut = [t |-> [FixedTimer EXCEPT !.state = st], last |-> NoCall,
                prev |-> NoCall]

\* arg is the duration or the minutes the call is given, now the instant it is
\* given or reads
Called(call, arg, now, after, ret) ==
    /\ InTestRange(after)
    /\ ut' = [t |-> after,
              last |-> [now |-> now, panic |-> FALSE, call |-> call,
                        before |-> ut.t, arg |-> arg, ret |-> ret],
              prev |-> ut.last]
    /\ UNCHANGED app_vars

CallNew ==
    \E x \in 0..MaxTestMinutes : Called("new", x, 0, NewTimer("torch", x, 0), 0)

CallRemoveTime ==
    \E x \in 0..MaxTestMinutes : Called("remove_time", x, 0, RemoveTime(ut.t, x), 0)

CallAddTime ==
    \E x \in 0..MaxTestMinutes : Called("add_time", x, 0, AddTime(ut.t, x), 0)

CallSetTime ==
    \E x \in 0..MaxTestMinutes, instant \in TestInstants :
        Called("set_time", x, instant, SetTime(ut.t, x, instant), 0)

CallTimeRemaining ==
    \E now \in TestInstants :
        Called("time_remaining", 0, now, ut.t, TimeRemaining(ut.t, now))

CallIsPaused ==
    Called("is_paused", 0, 0, ut.t, IF IsPaused(ut.t) THEN 1 ELSE 0)

CallStart ==
    \E now \in TestInstants : Called("start", 0, now, Start(ut.t, now), 0)

CallPause ==
    \E time_left \in TestDurations :
        Called("pause", time_left, 0, Pause(ut.t, time_left), 0)

\* lines 371-372 (and 230, 266): the timer is paused with the time that
\* time_remaining(now) returns
CallPauseRemaining ==
    \E now \in TestInstants :
        Called("pause_remaining", TimeRemaining(ut.t, now), now,
               Pause(ut.t, TimeRemaining(ut.t, now)), 0)

NextTimer ==
    \/ CallNew
    \/ CallRemoveTime
    \/ CallAddTime
    \/ CallSetTime
    \/ CallTimeRemaining
    \/ CallIsPaused
    \/ CallStart
    \/ CallPause
    \/ CallPauseRemaining

SpecTimer == InitTimer /\ [][NextTimer]_vars

----------------------------------------------------------------------------
(* The methods of one Timer at the edges of the u64 and of the Instant:    *)
(* specification SpecArith.  A timer drawn from the edges is called at     *)
(* most twice, with arguments from the edges; a call that panics is the    *)
(* last.                                                                   *)

ArithDurations ==
    {0, TestStep, BASE_TIME,
     INSTANT_MAX - BASE_TIME, INSTANT_MAX,
     DURATION_MAX - BASE_TIME, DURATION_MAX - TestStep, DURATION_MAX}

ArithInstants ==
    {INSTANT_MIN, INSTANT_MIN + BASE_TIME, 0, BASE_TIME,
     INSTANT_MAX - BASE_TIME, INSTANT_MAX}

\* minutes: the last whose seconds fit the u64, the first whose seconds do
\* not, and the greatest u64
ArithMinutes ==
    {0, 1, 2, DURATION_MAX \div BASE_TIME, DURATION_MAX \div BASE_TIME + 1,
     DURATION_MAX}

ArithStates ==
    {Paused(d) : d \in ArithDurations} \cup {RunUntil(e) : e \in ArithInstants}

InitArith ==
    /\ timers = <<NewTimer("torch", DefaultDuration, 0)>>
    /\ start_duration = DefaultDuration
    /\ displayed_time = DefaultStep
    /\ new_name = "torch"
    /\ next_timer_id = 0
    /\ running = FALSE
    /\ clock = 0
    /\ audio = <<>>
    /\ op = [panic |-> FALSE, run |-> FALSE, kind |-> "new", at |-> <<>>,
             rows |-> <<>>]
    /\ \E st \in ArithStates :
          ut = [t |-> [FixedTimer EXCEPT !.state = st], last |-> NoCall,
                prev |-> NoCall]

\* the call had the outcome o
Outcome(call, arg, now, o) ==
    /\ ~ut.last.panic
    /\ ut.prev.call = "none"
    /\ ut' = [t |-> o.t,
              last |-> [now |-> now, panic |-> o.panic, call |-> call,
                        before |-> ut.t, arg |-> arg, ret |-> 0],
              prev |-> ut.last]
    /\ UNCHANGED app_vars

ArithRemoveTime ==
    \E x \in ArithMinutes : \E o \in RemoveTimeOutcomes(ut.t, x) :
        Outcome("remove_time", x, 0, o)

ArithAddTime ==
    \E x \in ArithMinutes : \E o \in AddTimeOutcomes(ut.t, x) :
        Outcome("add_time", x, 0, o)

ArithSetTime ==
    \E x \in ArithMinutes, instant \in ArithInstants :
        \E o \in SetTimeOutcomes(ut.t, x, instant) :
            Outcome("set_time", x, instant, o)

ArithStart ==
    \E now \in ArithInstants : \E o \in StartOutcomes(ut.t, now) :
        Outcome("start", 0, now, o)

NextArith ==
    \/ ArithRemoveTime
    \/ ArithAddTime
    \/ ArithSetTime
    \/ ArithStart

SpecArith == InitArith /\ [][NextArith]_vars

----------------------------------------------------------------------------
(* Claims about the methods of Timer, checked under SpecTimer *)

\* C9: time_remaining(now) is never negative: of a Paused(d) timer it is d,
\* whatever now is; of a RunUntil(deadline) timer it is max(0, deadline - now),
\* also when the deadline is in the past.
C9_TimeRemaining ==
    ut.last.call = "time_remaining" =>
        /\ ut.last.ret >= 0
        /\ ut.last.before.state.tag = "Paused"
              => ut.last.ret = ut.last.before.state.v
        /\ ut.last.before.state.tag = "RunUntil"
              => ut.last.ret = Max(0, ut.last.before.state.v - ut.last.now)

\* time_remaining was asked of a timer whose deadline lies before the origin
\* of the clock, where only remove_time can have moved it
C9_Witness ==
    /\ ut.last.call = "time_remaining"
    /\ ut.last.before.state.tag = "RunUntil"
    /\ ut.last.before.state.v < 0
    /\ ut.last.now > 0
    /\ ut.last.ret = 0

\* C10: start(now) loses no time: a Paused(d) timer is RunUntil(now + d)
\* after it, and time_remaining(now) is d; a running timer keeps its deadline.
C10_StartLosesNoTime ==
    ut.last.call = "start" =>
        /\ ut.last.before.state.tag = "Paused"
              => /\ ut.t.state = RunUntil(ut.last.now + ut.last.before.state.v)
                 /\ TimeRemaining(ut.t, ut.last.now) = ut.last.before.state.v
        /\ ut.last.before.state.tag = "RunUntil"
              => ut.t.state = ut.last.before.state

\* start was called, not at the origin of the clock, on a paused timer that
\* had time left
C10_Witness ==
    /\ ut.last.call = "start"
    /\ ut.last.before.state.tag = "Paused"
    /\ ut.last.before.state.v > 0
    /\ ut.last.now > 0
    /\ ut.t.state.tag = "RunUntil"

\* C11: round trip.  A Paused(d) timer that start(now) started and that was
\* then paused with time_remaining(now') is Paused(max(0, d - (now' - now)));
\* with now' = now it is Paused(d) again.
C11_RoundTrip ==
    (/\ ut.last.call = "pause_remaining"
     /\ ut.prev.call = "start"
     /\ ut.prev.before.state.tag = "Paused")
        => /\ ut.t.state =
                 Paused(Max(0, ut.prev.before.state.v - (ut.last.now - ut.prev.now)))
           /\ ut.last.now = ut.prev.now => ut.t.state = ut.prev.before.state

\* a paused timer with time left was started, and paused again later, before
\* its time was up
C11_Witness ==
    /\ ut.last.call = "pause_remaining"
    /\ ut.prev.call = "start"
    /\ ut.prev.before.state.tag = "Paused"
    /\ ut.last.now > ut.prev.now
    /\ ut.t.state.tag = "Paused"
    /\ ut.t.state.v > 0
    /\ ut.t.state.v < ut.prev.before.state.v

----------------------------------------------------------------------------
(* Claims about the arithmetic of Timer, checked under SpecArith *)

\* C12: remove_time(x) leaves a Paused(d) timer Paused(max(0, d - 60 * x)),
\* for all d and all x: it returns, the duration floors at zero and the
\* timer stays Paused.
C12_RemoveFloors ==
    (ut.last.call = "remove_time" /\ ut.last.before.state.tag = "Paused")
        => /\ ~ut.last.panic
           /\ ut.t.state =
                 Paused(Max(0, ut.last.before.state.v - BASE_TIME * ut.last.arg))

\* C13: add_time(x) and then remove_time(x) leave a Paused(d) timer
\* Paused(d), for every x with d + 60 * x no more than Duration::MAX.
C13_AddThenRemove ==
    (/\ ut.last.call = "remove_time"
     /\ ut.prev.call = "add_time"
     /\ ut.prev.arg = ut.last.arg
     /\ ut.prev.before.state.tag = "Paused"
     /\ ut.prev.before.state.v + BASE_TIME * ut.prev.arg <= DURATION_MAX)
        => /\ ~ut.last.panic
           /\ ut.t.state = ut.prev.before.state

\* a minute was added to a timer a minute short of Duration::MAX, and
\* removed again
C13_Witness ==
    /\ ut.last.call = "remove_time"
    /\ ut.prev.call = "add_time"
    /\ ut.prev.arg = 1
    /\ ut.last.arg = 1
    /\ ut.last.before.state = Paused(DURATION_MAX)
    /\ ut.t.state = Paused(DURATION_MAX - BASE_TIME)

\* C15: add_time(x), remove_time(x) and set_time(x) return for every u64 x,
\* on both variants, and add_time(x) leaves a Paused(d) timer
\* Paused(min(Duration::MAX, d + 60 * x)), the product taken without
\* wraparound.
C15_Saturates ==
    ut.last.call \in {"add_time", "remove_time", "set_time"}
        => /\ ~ut.last.panic
           /\ (ut.last.call = "add_time" /\ ut.last.before.state.tag = "Paused")
                 => ut.t.state =
                       Paused(IF ut.last.before.state.v + BASE_TIME * ut.last.arg
                                    > DURATION_MAX
                              THEN DURATION_MAX
                              ELSE ut.last.before.state.v + BASE_TIME * ut.last.arg)

====
